---- MODULE Spec2Model ----
(***************************************************************************)
(* Model of pyrsync.py: a command-line wrapper that resolves its           *)
(* arguments, builds an rsync command and runs it once per target.         *)
(*                                                                         *)
(* Strings are sequences of one-character strings, so that endswith,       *)
(* startswith, replace, strip and os.path.join are computed character by   *)
(* character as Python computes them.                                      *)
(***************************************************************************)
EXTENDS Integers, Sequences, FiniteSets, TLC

VARIABLES
    raw,        \* the namespace as parser.parse_args() returned it (line 59)
    args,       \* the namespace as init_args() mutates it (lines 60-70)
    dirs,       \* the directories that exist on the filesystem
    pc,         \* position of the program
    i,          \* index of the running for loop (lines 187, 199)
    rsync_cmd,  \* the base command built by run_rsync (lines 152-154)
    calls,      \* the sequence of print_and_run calls, each one printed
    procs,      \* the child processes created by subprocess.Popen
    echoed,     \* what the running run_cmd has printed so far
    created,    \* the directories os.makedirs has created
    fin,        \* inputs of a pure function under test
    fout        \* successive outputs of the pure function under test

vars == <<raw, args, dirs, pc, i, rsync_cmd, calls, procs, echoed, created, fin, fout>>

-----------------------------------------------------------------------------
(* Bounds *)

MaxTargets == 2     \* folder arguments plus file arguments on one command line
MaxLines == 2       \* lines one child process writes to its standard output
MaxLen == 3         \* length of the strings given to the pure functions
MaxApply == 3       \* successive applications of remove_ending_separator
MaxEmpty == 2       \* empty lines one run_cmd prints at the end of the stream

-----------------------------------------------------------------------------
(* Python str and os.path, posix flavour *)

sep == "/"

endswith(s, suffix) ==
    /\ Len(suffix) <= Len(s)
    /\ SubSeq(s, Len(s) - Len(suffix) + 1, Len(s)) = suffix

startswith(s, prefix) ==
    /\ Len(prefix) <= Len(s)
    /\ SubSeq(s, 1, Len(prefix)) = prefix

\* str.replace(old, ''): every non-overlapping occurrence, left to right
RECURSIVE replace_with_empty(_, _)
replace_with_empty(s, old) ==
    IF old = <<>> \/ Len(s) < Len(old) THEN s
    ELSE IF startswith(s, old)
         THEN replace_with_empty(SubSeq(s, Len(old) + 1, Len(s)), old)
         ELSE <<Head(s)>> \o replace_with_empty(Tail(s), old)

RECURSIVE lstrip(_)
lstrip(s) == IF s # <<>> /\ Head(s) = " " THEN lstrip(Tail(s)) ELSE s

RECURSIVE rstrip(_)
rstrip(s) ==
    IF s # <<>> /\ s[Len(s)] = " " THEN rstrip(SubSeq(s, 1, Len(s) - 1)) ELSE s

strip(s) == rstrip(lstrip(s))

RECURSIVE rstrip_sep(_)
rstrip_sep(s) ==
    IF s # <<>> /\ s[Len(s)] = sep THEN rstrip_sep(SubSeq(s, 1, Len(s) - 1)) ELSE s

\* str.rfind('/') + 1: the length of the part up to the last separator
rfind_sep_plus1(s) ==
    LET idx == {k \in 1..Len(s) : s[k] = sep}
    IN  IF idx = {} THEN 0 ELSE CHOOSE k \in idx : \A j \in idx : j <= k

all_seps(s) == \A k \in 1..Len(s) : s[k] = sep

\* posixpath.split
path_split(p) ==
    LET n    == rfind_sep_plus1(p)
        head == SubSeq(p, 1, n)
        tail == SubSeq(p, n + 1, Len(p))
    IN  [head |-> IF head # <<>> /\ ~all_seps(head) THEN rstrip_sep(head) ELSE head,
         tail |-> tail]

\* posixpath.dirname
path_dirname(p) == path_split(p).head

\* posixpath.join(a, b)
path_join(a, b) ==
    IF startswith(b, <<sep>>) THEN b
    ELSE IF a = <<>> \/ endswith(a, <<sep>>) THEN a \o b
    ELSE a \o <<sep>> \o b

-----------------------------------------------------------------------------
(* The filesystem: a directory is named by its canonical path (no doubled  *)
(* and no trailing separator); <<>> is the working directory.              *)

RECURSIVE squeeze(_)
squeeze(s) ==
    IF Len(s) < 2 THEN s
    ELSE IF s[1] = sep /\ s[2] = sep THEN squeeze(Tail(s))
    ELSE <<Head(s)>> \o squeeze(Tail(s))

canon(p) ==
    LET q == squeeze(p)
    IN  IF Len(q) > 1 /\ q[Len(q)] = sep THEN SubSeq(q, 1, Len(q) - 1) ELSE q

names_dir(p) == p # <<>> /\ p[Len(p)] = sep

\* the plain files of the world; the program never creates or removes one
PlainFiles == { <<"a", "/", "f">>, <<"a", "/", "b", "/", "f">> }

\* the directories of the world before the program starts
InitDirs == { <<>>, <<"/">>, <<"a">>, <<"a", "/", "b">>, <<"/", "b">> }

path_isdir(ds, p) == p # <<>> /\ canon(p) \in ds

\* os.path.isfile: a trailing separator asks for a directory
path_isfile(p) == p # <<>> /\ ~names_dir(p) /\ canon(p) \in PlainFiles

\* os.path.exists
path_exists(ds, p) == path_isdir(ds, p) \/ path_isfile(p)


\* os.mkdir: "ok", "exists" (FileExistsError) or "other" (any other OSError)
mkdir(ds, name) ==
    LET c == canon(name)
    IN  IF name = <<>> THEN [dirs |-> ds, err |-> "other"]
        ELSE IF c \in ds \/ c \in PlainFiles THEN [dirs |-> ds, err |-> "exists"]
        ELSE IF canon(path_split(c).head) \in ds
             THEN [dirs |-> ds \cup {c}, err |-> "ok"]
             ELSE [dirs |-> ds, err |-> "other"]

\* os.makedirs(name) with exist_ok=False
RECURSIVE makedirs(_, _)
makedirs(ds, name) ==
    LET s1   == path_split(name)
        s2   == IF s1.tail = <<>> THEN path_split(s1.head) ELSE s1
        head == s2.head
        tail == s2.tail
    IN  IF head # <<>> /\ tail # <<>> /\ ~path_exists(ds, head)
        THEN LET r == makedirs(ds, head)
             IN  IF r.err = "other" THEN r
                 ELSE IF tail = <<".">> THEN [dirs |-> r.dirs, err |-> "ok"]
                 ELSE mkdir(r.dirs, name)
        ELSE mkdir(ds, name)

\* force_mkdirs swallows FileExistsError only; any other error propagates
force_mkdirs(ds, path) ==
    LET r == makedirs(ds, path)
    IN  [dirs |-> r.dirs, raised |-> r.err = "other"]

-----------------------------------------------------------------------------
(* Argument resolver *)

\* variant: every trailing separator is removed
remove_ending_separator_all(path) == rstrip_sep(path)

remove_ending_separator(path) ==
    IF endswith(path, <<sep>>) THEN SubSeq(path, 1, Len(path) - 1) ELSE path

remove_origin_arg_from_path_arg(origin, path) ==
    LET p == remove_ending_separator(path)
    IN  IF startswith(p, origin) THEN strip(replace_with_empty(p, origin)) ELSE p

\* the path set_folders_args tests for one --folders argument
folder_path(origin, folder) ==
    path_join(origin, remove_origin_arg_from_path_arg(origin, folder))

\* the test of line 108, negated: the argument is kept
folder_found(ds, origin, folder) == path_exists(ds, folder_path(origin, folder))

\* the path set_files_args tests for one --files argument
file_path(origin, file) ==
    path_join(origin, remove_origin_arg_from_path_arg(origin, file))

\* the test of line 127, negated: the argument is kept
file_found(origin, file) == path_isfile(file_path(origin, file))

\* variant: executability is not forced
mirroring_expand_three(a) ==
    IF a.mirroring
    THEN [a EXCEPT !.delete = TRUE, !.owner = TRUE, !.group = TRUE]
    ELSE a

\* the four assignments under "if args.mirroring"
mirroring_expand(a) ==
    IF a.mirroring
    THEN [a EXCEPT !.delete = TRUE, !.owner = TRUE, !.group = TRUE,
                   !.executability = TRUE]
    ELSE a

\* one '--exclude "pattern"' per pattern, in input order
exclude_options(patterns) ==
    [k \in 1..Len(patterns) |-> <<"--exclude", patterns[k]>>]

-----------------------------------------------------------------------------
(* Command builder *)

opts == <<"delete", "verbose", "progress", "owner", "group", "executability",
          "dry_run", "delete_excluded">>

\* '--' + opt.replace('_', '-')
opt_token == [delete |-> "--delete", verbose |-> "--verbose",
              progress |-> "--progress", owner |-> "--owner",
              group |-> "--group", executability |-> "--executability",
              dry_run |-> "--dry-run", delete_excluded |-> "--delete-excluded"]

RECURSIVE add_boolean_from(_, _, _)
add_boolean_from(a, cmd, k) ==
    IF k > Len(opts) THEN cmd
    ELSE add_boolean_from(a,
                          IF a[opts[k]] THEN Append(cmd, opt_token[opts[k]]) ELSE cmd,
                          k + 1)

add_boolean_rsync_options(a, cmd) == add_boolean_from(a, cmd, 1)

RECURSIVE flatten(_)
flatten(ss) == IF ss = <<>> THEN <<>> ELSE Head(ss) \o flatten(Tail(ss))

add_exclude_rsync_options(a, cmd) == cmd \o flatten(a.exclude)

\* the number of times a token occurs in a command
count_token(cmd, t) == Cardinality({k \in 1..Len(cmd) : cmd[k] = t})

-----------------------------------------------------------------------------
(* Command lines the program is started with *)

NoFlags == [delete |-> FALSE, verbose |-> FALSE, progress |-> FALSE,
            owner |-> FALSE, group |-> FALSE, executability |-> FALSE,
            dry_run |-> FALSE, delete_excluded |-> FALSE, mirroring |-> FALSE,
            print_cmd_only |-> FALSE]

FlagNames == DOMAIN NoFlags

\* merge the path arguments and the switches into one namespace
Namespace(origin, dest, folders, files, exclude, flags) ==
    [n \in {"origin", "dest", "folders", "files", "exclude"} \cup FlagNames |->
        CASE n = "origin"  -> origin
          [] n = "dest"    -> dest
          [] n = "folders" -> folders
          [] n = "files"   -> files
          [] n = "exclude" -> exclude
          [] OTHER         -> flags[n]]

\* --folders / --files values: a folder, a file, a missing name, a path that
\* starts with the origin, a sibling name that starts with the origin's name,
\* a file in a sub-folder
PathArgs == { <<"b">>, <<"f">>, <<"m">>, <<"a", "/", "b">>, <<"a", "b">>,
              <<"b", "/", "f">> }

Origins == { <<"a">>, <<"a", "/">> }
Dests == { <<"d">>, <<"d", "/">> }

SeqsOfLen(S, n) == [1..n -> S]

\* the switches given on the command lines of the executor's runs
MainFlags ==
    { [NoFlags EXCEPT !.print_cmd_only = p, !.mirroring = m] : p, m \in BOOLEAN }

TargetCounts ==
    { c \in (0..MaxTargets) \X (0..MaxTargets) : c[1] + c[2] <= MaxTargets }

RawMain ==
    UNION { { Namespace(o, d, fo, fi, <<>>, fl) :
                o \in Origins, d \in Dests,
                fo \in SeqsOfLen(PathArgs, c[1]), fi \in SeqsOfLen(PathArgs, c[2]),
                fl \in MainFlags } :
            c \in TargetCounts }

NoInput == [origin |-> <<>>, path |-> <<>>]
NoOutput == [fn |-> "none", out |-> <<>>]

Init ==
    /\ raw \in RawMain
    /\ args = raw
    /\ dirs = InitDirs
    /\ pc = "init_args"
    /\ i = 0
    /\ rsync_cmd = <<>>
    /\ calls = <<>>
    /\ procs = <<>>
    /\ echoed = <<>>
    /\ created = {}
    /\ fin = NoInput
    /\ fout = NoOutput

-----------------------------------------------------------------------------
(* init_args *)

\* lines 60-61
NormalizeArgs ==
    /\ pc = "init_args"
    /\ args' = [args EXCEPT !.origin = remove_ending_separator(@),
                            !.dest = remove_ending_separator(@)]
    /\ pc' = "set_folders"
    /\ UNCHANGED <<raw, dirs, i, rsync_cmd, calls, procs, echoed, created, fin, fout>>

\* line 62: raises FileNotFoundError at the first argument that is not found
set_folders_args ==
    /\ pc = "set_folders"
    /\ IF \A k \in 1..Len(args.folders) : folder_found(dirs, args.origin, args.folders[k])
       THEN /\ args' = [args EXCEPT !.folders =
                          [k \in 1..Len(@) |->
                              remove_origin_arg_from_path_arg(args.origin, @[k])]]
            /\ pc' = "set_files"
       ELSE /\ pc' = "not_found"
            /\ UNCHANGED args
    /\ UNCHANGED <<raw, dirs, i, rsync_cmd, calls, procs, echoed, created, fin, fout>>

\* line 63
set_files_args ==
    /\ pc = "set_files"
    /\ IF \A k \in 1..Len(args.files) : file_found(args.origin, args.files[k])
       THEN /\ args' = [args EXCEPT !.files =
                          [k \in 1..Len(@) |->
                              remove_origin_arg_from_path_arg(args.origin, @[k])]]
            /\ pc' = "set_excludes"
       ELSE /\ pc' = "not_found"
            /\ UNCHANGED args
    /\ UNCHANGED <<raw, dirs, i, rsync_cmd, calls, procs, echoed, created, fin, fout>>

\* lines 64-72
set_excludes_and_mirroring ==
    /\ pc = "set_excludes"
    /\ args' = mirroring_expand([args EXCEPT !.exclude = exclude_options(@)])
    /\ pc' = "run_rsync"
    /\ UNCHANGED <<raw, dirs, i, rsync_cmd, calls, procs, echoed, created, fin, fout>>

-----------------------------------------------------------------------------
(* run_rsync *)

\* lines 152-154
run_rsync ==
    /\ pc = "run_rsync"
    /\ rsync_cmd' = add_exclude_rsync_options(args,
                        add_boolean_rsync_options(args, <<"rsync", "-rulHt">>))
    /\ pc' = "folders"
    /\ i' = 1
    /\ UNCHANGED <<raw, args, dirs, calls, procs, echoed, created, fin, fout>>

NewProc == [state |-> "running", written |-> 0, nread |-> 0, code |-> 0]
Reaped(c) == [state |-> "reaped", written |-> 0, nread |-> 0, code |-> c]

\* where the caller of print_and_run continues
after_call(kind) ==
    CASE kind = "folder" -> "folders"
      [] kind = "file"   -> "files"
      [] kind = "origin" -> "done"

\* variant: the child is started and not waited for
print_and_run_nowait(kind, target, origin, dest) ==
    /\ calls' = Append(calls, [kind |-> kind, target |-> target, origin |-> origin,
                               dest |-> dest, cmd |-> rsync_cmd])
    /\ procs' = IF args.print_cmd_only THEN procs
                ELSE Append(procs, [state |-> "running", written |-> 0,
                                    nread |-> 0, code |-> 0])
    /\ pc' = CASE kind = "folder" -> "folders"
               [] kind = "file"   -> "files"
               [] kind = "origin" -> "done"
    /\ i' = i + 1
    /\ UNCHANGED echoed

\* print_msg, then run_cmd up to subprocess.Popen unless print_cmd_only;
\* Popen either starts the child or raises (the command cannot be started),
\* and nothing catches what it raises: main() ends there
print_and_run(kind, target, origin, dest) ==
    /\ calls' = Append(calls, [kind |-> kind, target |-> target, origin |-> origin,
                               dest |-> dest, cmd |-> rsync_cmd])
    /\ IF args.print_cmd_only
       THEN /\ pc' = after_call(kind)
            /\ i' = i + 1
            /\ UNCHANGED <<procs, echoed>>
       ELSE \/ /\ procs' = Append(procs, NewProc)
               /\ echoed' = <<>>
               /\ pc' = "poll"
               /\ UNCHANGED i
            \/ /\ pc' = "crashed"
               /\ UNCHANGED <<procs, echoed, i>>

\* lines 187-190: the paths of one folder and force_mkdirs
run_rsync_folders_mkdirs ==
    /\ pc = "folders"
    /\ i <= Len(args.folders)
    /\ LET dest_folder_path == path_join(args.dest, args.folders[i] \o <<sep>>)
           r == force_mkdirs(dirs, dest_folder_path)
       IN  /\ dirs' = r.dirs
           /\ created' = created \cup (r.dirs \ dirs)
           /\ pc' = IF r.raised THEN "crashed" ELSE "folders_run"
    /\ UNCHANGED <<raw, args, i, rsync_cmd, calls, procs, echoed, fin, fout>>

\* line 191
run_rsync_folders_run ==
    /\ pc = "folders_run"
    /\ print_and_run("folder", args.folders[i],
                     path_join(args.origin, args.folders[i] \o <<sep>>),
                     path_join(args.dest, args.folders[i] \o <<sep>>))
    /\ UNCHANGED <<raw, args, dirs, rsync_cmd, created, fin, fout>>

\* line 187, the list is exhausted; line 156
run_rsync_folders_end ==
    /\ pc = "folders"
    /\ i > Len(args.folders)
    /\ pc' = "files"
    /\ i' = 1
    /\ UNCHANGED <<raw, args, dirs, rsync_cmd, calls, procs, echoed, created, fin, fout>>

\* lines 199-203
run_rsync_files_mkdirs ==
    /\ pc = "files"
    /\ i <= Len(args.files)
    /\ LET dest_file_folder_path == path_join(args.dest, path_dirname(args.files[i]))
           r == force_mkdirs(dirs, dest_file_folder_path)
       IN  /\ dirs' = r.dirs
           /\ created' = created \cup (r.dirs \ dirs)
           /\ pc' = IF r.raised THEN "crashed" ELSE "files_run"
    /\ UNCHANGED <<raw, args, i, rsync_cmd, calls, procs, echoed, fin, fout>>

\* line 204
run_rsync_files_run ==
    /\ pc = "files_run"
    /\ print_and_run("file", args.files[i],
                     path_join(args.origin, args.files[i]),
                     path_join(args.dest, args.files[i]))
    /\ UNCHANGED <<raw, args, dirs, rsync_cmd, created, fin, fout>>

\* line 199, the list is exhausted; line 157
run_rsync_files_end ==
    /\ pc = "files"
    /\ i > Len(args.files)
    /\ pc' = "origin_dest"
    /\ UNCHANGED <<raw, args, dirs, i, rsync_cmd, calls, procs, echoed, created, fin, fout>>

\* variant: only the folder list is tested
sync_whole_origin_folders_only(a) == a.folders = <<>>

\* the condition of line 212
sync_whole_origin(a) == a.folders = <<>> /\ a.files = <<>>

\* lines 212-213
run_rsync_origin_dest ==
    /\ pc = "origin_dest"
    /\ IF sync_whole_origin(args)
       THEN print_and_run("origin", <<>>, args.origin, args.dest)
       ELSE /\ pc' = "done"
            /\ UNCHANGED <<i, calls, procs, echoed>>
    /\ UNCHANGED <<raw, args, dirs, rsync_cmd, created, fin, fout>>

-----------------------------------------------------------------------------
(* run_cmd and the child process *)

current == procs[Len(procs)]

\* the child writes one more line to its standard output
ChildWrite(p) ==
    /\ procs[p].state = "running"
    /\ procs[p].written < MaxLines
    /\ procs' = [procs EXCEPT ![p].written = @ + 1]
    /\ UNCHANGED <<raw, args, dirs, pc, i, rsync_cmd, calls, echoed, created, fin, fout>>

\* the child's end of the pipe is closed: the first event of its termination;
\* the end of the stream is readable, the child is not yet waitable
ChildClose(p) ==
    /\ procs[p].state = "running"
    /\ procs' = [procs EXCEPT ![p].state = "closed"]
    /\ UNCHANGED <<raw, args, dirs, pc, i, rsync_cmd, calls, echoed, created, fin, fout>>

\* the child becomes waitable: from now on poll() returns its exit code
ChildExit(p, c) ==
    /\ procs[p].state = "closed"
    /\ procs' = [procs EXCEPT ![p].state = "exited", ![p].code = c]
    /\ UNCHANGED <<raw, args, dirs, pc, i, rsync_cmd, calls, echoed, created, fin, fout>>

\* process.poll() is None: the child is not waitable yet
poll_is_none(proc) == proc.state \in {"running", "closed"}

\* the empty lines printed by the running run_cmd
empty_lines == Cardinality({k \in 1..Len(echoed) : echoed[k] = 0})

\* line 283; once MaxEmpty empty lines are printed the loop goes round again
\* only after the child has become waitable
Poll ==
    /\ pc = "poll"
    /\ current.state = "closed" => empty_lines < MaxEmpty
    /\ pc' = IF poll_is_none(current) THEN "readline" ELSE "communicate"
    /\ UNCHANGED <<raw, args, dirs, i, rsync_cmd, calls, procs, echoed, created, fin, fout>>

\* line 284: readline blocks until a line or the end of the stream is there;
\* at the end of the stream, which is there as soon as the child's end of the
\* pipe is closed, it returns '' and an empty line (0) is printed
\* a line that is not UTF-8 makes decode raise: nothing is printed and, as
\* nothing catches it, run_cmd and main() end there
ReadLine ==
    /\ pc = "readline"
    /\ \/ /\ current.nread < current.written
          /\ echoed' = Append(echoed, current.nread + 1)
          /\ procs' = [procs EXCEPT ![Len(procs)].nread = @ + 1]
          /\ pc' = "poll"
       \/ /\ current.nread < current.written
          /\ procs' = [procs EXCEPT ![Len(procs)].nread = @ + 1]
          /\ pc' = "crashed"
          /\ UNCHANGED echoed
       \/ /\ current.nread = current.written
          /\ current.state # "running"
          /\ echoed' = Append(echoed, 0)
          /\ pc' = "poll"
          /\ UNCHANGED procs
    /\ UNCHANGED <<raw, args, dirs, i, rsync_cmd, calls, created, fin, fout>>

\* line 286: communicate() reads what is left in the stream and waits for the
\* child; its result is returned, and dropped by print_and_run
Communicate ==
    /\ pc = "communicate"
    /\ current.state = "exited"
    /\ procs' = [procs EXCEPT ![Len(procs)] = Reaped(current.code)]
    /\ pc' = after_call(calls[Len(calls)].kind)
    /\ i' = i + 1
    /\ UNCHANGED <<raw, args, dirs, rsync_cmd, calls, echoed, created, fin, fout>>

ExitCodes == {0, 1}

Next ==
    \/ NormalizeArgs
    \/ set_folders_args
    \/ set_files_args
    \/ set_excludes_and_mirroring
    \/ run_rsync
    \/ run_rsync_folders_mkdirs
    \/ run_rsync_folders_run
    \/ run_rsync_folders_end
    \/ run_rsync_files_mkdirs
    \/ run_rsync_files_run
    \/ run_rsync_files_end
    \/ run_rsync_origin_dest
    \/ \E p \in DOMAIN procs : ChildWrite(p)
    \/ \E p \in DOMAIN procs : ChildClose(p)
    \/ \E p \in DOMAIN procs, c \in ExitCodes : ChildExit(p, c)
    \/ Poll
    \/ ReadLine
    \/ Communicate

Spec == Init /\ [][Next]_vars

-----------------------------------------------------------------------------
(* The resolver and the builder alone, over every combination of switches  *)

ExcludeArgs == { <<>>, <<"x">>, <<"x", "y">> }

RawCmd ==
    { Namespace(<<"a">>, <<"d">>, <<>>, <<>>, e, [fl EXCEPT !.print_cmd_only = TRUE]) :
        e \in ExcludeArgs, fl \in [FlagNames -> BOOLEAN] }

InitCmd ==
    /\ raw \in RawCmd
    /\ args = raw
    /\ dirs = InitDirs
    /\ pc = "init_args"
    /\ i = 0
    /\ rsync_cmd = <<>>
    /\ calls = <<>>
    /\ procs = <<>>
    /\ echoed = <<>>
    /\ created = {}
    /\ fin = NoInput
    /\ fout = NoOutput

NextCmd ==
    \/ NormalizeArgs
    \/ set_folders_args
    \/ set_files_args
    \/ set_excludes_and_mirroring
    \/ run_rsync
    \/ run_rsync_folders_end
    \/ run_rsync_files_end
    \/ run_rsync_origin_dest

SpecCmd == InitCmd /\ [][NextCmd]_vars

-----------------------------------------------------------------------------
(* The two path functions of the resolver, applied to bounded strings *)

Alphabet == { sep, "a", "b", " " }

StringsUpTo(n) == UNION { SeqsOfLen(Alphabet, k) : k \in 0..n }

InitFn ==
    /\ fin \in { [origin |-> o, path |-> p] :
                    o \in StringsUpTo(MaxLen - 1), p \in StringsUpTo(MaxLen) }
    /\ fout = NoOutput
    /\ pc = "fn"
    /\ raw = NoFlags
    /\ args = NoFlags
    /\ dirs = InitDirs
    /\ i = 0
    /\ rsync_cmd = <<>>
    /\ calls = <<>>
    /\ procs = <<>>
    /\ echoed = <<>>
    /\ created = {}

\* remove_ending_separator applied to the path, then to its own result
ApplyRemoveEndingSeparator ==
    /\ pc = "fn"
    /\ fout.fn \in {"none", "remove_ending_separator"}
    /\ Len(fout.out) < MaxApply
    /\ fout' = [fn |-> "remove_ending_separator",
                out |-> Append(fout.out,
                               remove_ending_separator(
                                   IF fout.out = <<>> THEN fin.path
                                   ELSE fout.out[Len(fout.out)]))]
    /\ UNCHANGED <<raw, args, dirs, pc, i, rsync_cmd, calls, procs, echoed, created, fin>>

\* lines 105-106 (and 124-125): the relative target, then the path tested
ApplyRemoveOrigin ==
    /\ pc = "fn"
    /\ fout.fn = "none"
    /\ fout' = [fn |-> "remove_origin_arg_from_path_arg",
                out |-> << remove_origin_arg_from_path_arg(fin.origin, fin.path),
                           folder_path(fin.origin, fin.path) >>]
    /\ UNCHANGED <<raw, args, dirs, pc, i, rsync_cmd, calls, procs, echoed, created, fin>>

NextFn == ApplyRemoveEndingSeparator \/ ApplyRemoveOrigin

SpecFn == InitFn /\ [][NextFn]_vars

-----------------------------------------------------------------------------
(* Properties *)

Resolving == {"init_args", "set_folders", "set_files", "set_excludes"}
InRunCmd == {"poll", "readline", "communicate"}

\* the path under origin that a --folders or --files argument names
named_path(origin, arg) ==
    IF startswith(arg, origin \o <<sep>>) THEN arg ELSE origin \o <<sep>> \o arg

normalized_origin == remove_ending_separator(raw.origin)

MirrorTokens == {"--delete", "--owner", "--group", "--executability"}

\* C1: with print_cmd_only no child process is spawned and no destination
\* directory is created, whatever the targets are.
C1_PrintOnlyHasNoEffect ==
    raw.print_cmd_only => (procs = <<>> /\ created = {})

\* C2: a folder or file argument naming a path that does not exist under
\* origin makes resolution fail, with nothing spawned, created or printed.
C2_MissingTargetFailsFast ==
    (\E k \in 1..Len(raw.folders) :
         ~path_exists(InitDirs, named_path(normalized_origin, raw.folders[k])))
    \/ (\E k \in 1..Len(raw.files) :
         ~path_exists(InitDirs, named_path(normalized_origin, raw.files[k])))
    => /\ pc \in Resolving \cup {"not_found"}
       /\ procs = <<>>
       /\ created = {}
       /\ calls = <<>>

\* C3: the whole-origin synchronization is performed if and only if both
\* resolved lists are empty, and it is then the only synchronization.
C3_WholeOriginIffNoTargets ==
    LET origin_calls == {k \in 1..Len(calls) : calls[k].kind = "origin"}
    IN  /\ origin_calls # {} =>
              /\ args.folders = <<>> /\ args.files = <<>>
              /\ Len(calls) = 1
              /\ calls[1].origin = args.origin /\ calls[1].dest = args.dest
        /\ pc = "done" /\ args.folders = <<>> /\ args.files = <<>> =>
              origin_calls = {1}

C3_Witness ==
    /\ pc = "done"
    /\ Len(calls) = 1 /\ calls[1].kind = "origin"
    /\ Len(procs) = 1 /\ procs[1].state = "reaped"

\* C4: with mirroring, whatever delete, owner, group and executability were
\* given, the four are true in the resolved configuration and each of their
\* tokens occurs exactly once in the command built and printed.
C4_MirroringForcesFour ==
    raw.mirroring =>
        /\ pc \notin Resolving =>
              args.delete /\ args.owner /\ args.group /\ args.executability
        /\ pc \notin Resolving \cup {"run_rsync"} =>
              \A t \in MirrorTokens : count_token(rsync_cmd, t) = 1
        /\ \A k \in 1..Len(calls) :
              \A t \in MirrorTokens : count_token(calls[k].cmd, t) = 1

C4_Witness ==
    /\ pc = "done"
    /\ raw.mirroring /\ raw.delete /\ ~raw.owner /\ raw.group /\ ~raw.executability
    /\ Len(calls) = 1

\* C5 as stated: remove_ending_separator removes at most one trailing
\* separator and applying it twice gives what applying it once gives.
C5_Idempotent ==
    fout.fn = "remove_ending_separator" /\ Len(fout.out) >= 2 =>
        /\ fin.path \in {fout.out[1], fout.out[1] \o <<sep>>}
        /\ fout.out[2] = fout.out[1]

\* C5 amended: remove_ending_separator removes exactly one trailing separator
\* when there is one and nothing otherwise; applying it twice gives what
\* applying it once gives for every path that does not end in two or more
\* separators.
C5_RemovesOneSeparator ==
    fout.fn = "remove_ending_separator" =>
        /\ IF fin.path # <<>> /\ fin.path[Len(fin.path)] = sep
           THEN fin.path = fout.out[1] \o <<sep>>
           ELSE fin.path = fout.out[1]
        /\ Len(fout.out) >= 2 /\ ~endswith(fin.path, <<sep, sep>>) =>
              fout.out[2] = fout.out[1]

C5_Witness ==
    /\ fout.fn = "remove_ending_separator"
    /\ Len(fout.out) >= 2
    /\ fin.path = <<"a", "b", sep>>
    /\ fout.out[1] = <<"a", "b">>
    /\ fout.out[2] = <<"a", "b">>

\* a relative name: not empty, no separator or blank at either end
relative_name(s) ==
    /\ s # <<>>
    /\ s[1] \notin {sep, " "}
    /\ s[Len(s)] \notin {sep, " "}

\* C6: for a normalized origin and a relative name sub, the argument
\* origin + separator + sub resolves to sub, and the path tested is origin/sub.
C6_PrefixedArgumentResolvesToSub ==
    LET sub == SubSeq(fin.path, Len(fin.origin) + 2, Len(fin.path))
    IN  /\ fout.fn = "remove_origin_arg_from_path_arg"
        /\ fin.origin # <<>>
        /\ remove_ending_separator(fin.origin) = fin.origin
        /\ startswith(fin.path, fin.origin \o <<sep>>)
        /\ relative_name(sub)
        => /\ fout.out[1] = sub
           /\ fout.out[2] = fin.origin \o <<sep>> \o sub

\* C7: the per-target calls of print_and_run are the resolved folders in the
\* order supplied followed by the resolved files in the order supplied, each
\* once, whatever became of the earlier children: when the program has ended,
\* every target has been attempted.
C7_TargetsInOrderOnce ==
    LET expected == [k \in 1..Len(args.folders) |-> <<"folder", args.folders[k]>>]
                    \o [k \in 1..Len(args.files) |-> <<"file", args.files[k]>>]
        per_target == SelectSeq(calls, LAMBDA c : c.kind # "origin")
        actual == [k \in 1..Len(per_target) |->
                      <<per_target[k].kind, per_target[k].target>>]
    IN  /\ pc \in Resolving => calls = <<>>
        /\ pc \notin Resolving \cup {"not_found"} =>
              /\ Len(actual) <= Len(expected)
              /\ actual = SubSeq(expected, 1, Len(actual))
        /\ pc \in {"done", "crashed"} => actual = expected

C9_KindSpecificCheck ==
    /\ pc \notin {"init_args", "set_folders", "not_found"} =>
          \A k \in 1..Len(raw.folders) :
              path_isdir(InitDirs, folder_path(normalized_origin, raw.folders[k]))
    /\ pc \notin Resolving \cup {"not_found"} =>
          \A k \in 1..Len(raw.files) :
              path_isfile(file_path(normalized_origin, raw.files[k]))

\* C10: when run_cmd leaves its loop, and so prints nothing more, every line
\* the child wrote has been echoed.
C10_EveryLineEchoed ==
    pc = "communicate" =>
        \A l \in 1..current.written : \E k \in 1..Len(echoed) : echoed[k] = l

====
